---- MODULE Spec2Model ----
(***************************************************************************)
(* State-machine model of the magpie-node client library:                  *)
(*   - the HTTP request engine of BaseClient (request construction, the    *)
(*     axios response interceptors, shouldRetry, error translation);       *)
(*   - the webhook verifier WebhookUtils.                                  *)
(* One logical request is followed from request() through every attempt    *)
(* the interceptors dispatch, to the value or error the caller receives.   *)
(***************************************************************************)
EXTENDS Integers, Sequences, FiniteSets, TLC

\* Largest non-negative maxRetries the model configures a client with.
MaxRetriesBound == 2

\* JavaScript's undefined.
None == "undefined"

(***************************************************************************)
(* Inputs of request()                                                     *)
(***************************************************************************)
HttpMethod == {"GET", "POST", "PUT", "DELETE", "PATCH", "HEAD", "OPTIONS"}

\* String.prototype.toLowerCase on the method names and the header names.
toLowerCase(m) ==
    CASE m = "GET" -> "get"
      [] m = "POST" -> "post"
      [] m = "PUT" -> "put"
      [] m = "DELETE" -> "delete"
      [] m = "PATCH" -> "patch"
      [] m = "HEAD" -> "head"
      [] m = "OPTIONS" -> "options"
      [] m = "X-Magpie-Signature" -> "x-magpie-signature"
      [] m = "X-Hook-Signature" -> "x-hook-signature"
      [] m = "X-MAGPIE-TIMESTAMP" -> "x-magpie-timestamp"
      [] OTHER -> m

\* options.idempotencyKey: absent, or one of two caller-chosen keys.
IdempotencyKeys == {"key_a", "key_b"}

\* options.retryable: absent, true or false.
RetryableOptions == {None, "true", "false"}

\* A header bag maps each header name to its value, None when it is not set.
\* Names are property names: they are matched exactly, letter for letter.
HeaderNames == {"X-Idempotency-Key", "idempotency-key"}

NoHeaders == [n \in HeaderNames |-> None]

\* headers[name]
HeaderGet(headers, name) ==
    IF name \in DOMAIN headers THEN headers[name] ELSE None

\* headers[name] = value
HeaderSet(headers, name, value) ==
    [n \in DOMAIN headers |-> IF n = name THEN value ELSE headers[n]]

\* options.axiosConfig: the raw transport overrides a caller may pass. The
\* model lets it override validateStatus (with axios' stock 2xx predicate) and
\* carry its own headers.
AxiosConfigs ==
    { [validateStatus |-> v, headers |-> h] :
        v \in {None, "2xx"},
        h \in {NoHeaders, HeaderSet(NoHeaders, "idempotency-key", "key_a")} }

(***************************************************************************)
(* Outcomes of one transport attempt                                       *)
(***************************************************************************)
Statuses == {200, 400, 401, 403, 404, 409, 422, 429, 503, 600}

\* Shapes of a response body: no body, {error: {message, type, code}} whose
\* type is a tag of the closed set or not, and a flat {message}.
Bodies == {"none", "error_card", "error_bogus", "flat"}

\* error.code of a transport failure. ECONNABORTED is what the transport
\* reports when the configured timeout elapses.
ErrorCodes == {"ENOTFOUND", "ECONNRESET", "ETIMEDOUT", "ECONNREFUSED",
               "ECONNABORTED", "EPIPE", None}

HttpOutcome(s) == [kind |-> "http", status |-> s, code |-> None]
NetworkOutcome(c) == [kind |-> "network", status |-> 0, code |-> c]
NoConfigOutcome == [kind |-> "noconfig", status |-> 0, code |-> None]

(***************************************************************************)
(* Client configuration and credentials                                    *)
(* A key is a string, written as the sequence of its characters.           *)
(***************************************************************************)
\* config.retryDelay ?? 1000
DefaultRetryDelay == 1000

\* Values of config.retryDelay, in milliseconds.
RetryDelays == {DefaultRetryDelay, 20000}

\* The ceiling of calculateRetryDelay, in milliseconds.
MaxRetryDelay == 30000

\* Values of Math.random(), in tenths.
Randoms == {0, 5, 9}

\* The secret key the client is constructed with.
InitialKey == <<"s", "k", "_", "a">>

\* An argument of setApiKey: a string or some other value.
ApiKey(isString, chars) == [isString |-> isString, chars |-> chars]

\* Arguments of setApiKey: secret and public keys, the empty string, strings
\* without either prefix, and a value that is not a string.
ApiKeys ==
    { ApiKey(TRUE, c) : c \in { InitialKey, <<"s", "k", "_", "b">>, <<"p", "k", "_", "a">>,
                                <<>>, <<"s", "k">>, <<"k", "e", "y">> } }
    \cup { ApiKey(FALSE, <<>>) }

\* No call of setApiKey yet.
NoKeyCall == [called |-> FALSE, key |-> ApiKey(FALSE, <<>>), before |-> <<>>,
              threw |-> None, message |-> None]

(***************************************************************************)
(* Bodies, query parameters and response headers                           *)
(***************************************************************************)
\* The keys of the objects given as request data and of the query parameters.
ParamNames == {"limit", "expand"}

\* An object over those keys; a key that is not set holds <<>>.
Object(limit, expand) == [n \in ParamNames |-> IF n = "limit" THEN limit ELSE expand]
EmptyObject == Object(<<>>, <<>>)

\* { ...a, ...b }
Spread(a, b) == [n \in ParamNames |-> IF b[n] # <<>> THEN b[n] ELSE a[n]]

\* The data argument of request(): left out, or an object.
NoData == [given |-> FALSE, fields |-> EmptyObject]
DataArgs ==
    { NoData }
    \cup { [given |-> TRUE, fields |-> f] :
             f \in { EmptyObject, Object(<<"10">>, <<>>), Object(<<>>, <<"card">>) } }

\* options.expand: left out, an empty list, or a list of one field.
NoExpand == [given |-> FALSE, list |-> <<>>]
ExpandArgs == { NoExpand, [given |-> TRUE, list |-> <<>>], [given |-> TRUE, list |-> <<"customer">>] }

\* The headers of a response that carry a request identifier.
ResponseHeaderNames == {"request-id", "x-request-id"}
ResponseHeaders(requestId, xRequestId) ==
    [n \in ResponseHeaderNames |-> IF n = "request-id" THEN requestId ELSE xRequestId]
NoResponseHeaders == ResponseHeaders(None, None)
ResponseHeaderSets == { ResponseHeaders(a, b) : a \in {None, "req_1"}, b \in {None, "req_2"} }

VARIABLES
    maxRetries,   \* this.config.maxRetries
    retryDelay,   \* this.config.retryDelay
    secretKey,    \* this.secretKey
    defaultsAuth, \* this.http.defaults.auth.username
    keyCall,      \* the most recent call of setApiKey and what it threw
    pc,           \* "idle", "inflight", "backoff", "done"
    config,       \* the request config object of the logical request
    wire,         \* the attempts dispatched so far, as the server sees them
    history,      \* the outcome of every resolved attempt, in order
    data,         \* response.data of the attempt that settled last
    responseHeaders, \* response.headers of the attempt that settled last
    delay,        \* the delay the error handler is waiting for, 0 when it is not
    result,       \* what request() resolved or rejected with
    wh            \* the most recent call of the webhook verifier and its outcome

\* The fields of the client object.
clientVars == <<maxRetries, retryDelay, secretKey, defaultsAuth, keyCall>>

engineVars == <<clientVars, pc, config, wire, history, data, responseHeaders, delay, result>>

vars == <<clientVars, pc, config, wire, history, data, responseHeaders, delay, result, wh>>

\* No request config yet (no call in progress).
NoConfig == [method |-> None, headers |-> NoHeaders, _retryable |-> None,
             _retryCount |-> 0, validateStatus |-> None, auth |-> <<>>,
             data |-> NoData, params |-> EmptyObject]

\* The caller's promise is not settled yet.
Pending == [kind |-> "pending", status |-> 0, type |-> None, code |-> None,
            message |-> None, requestId |-> None, data |-> "none",
            headers |-> NoResponseHeaders]

(***************************************************************************)
(* Error translation                                                       *)
(***************************************************************************)
\* data?.error of a response body.
BodyHasError(b) == b \in {"error_card", "error_bogus"}

\* data.error.type of a response body.
BodyErrorType(b) ==
    CASE b = "error_card" -> "card_error"
      [] b = "error_bogus" -> "bogus_error"
      [] OTHER -> None

\* data.error.code of a response body.
BodyErrorCode(b) == IF BodyHasError(b) THEN "card_declined" ELSE None

\* `http_${status}`
HttpStatusCode(status) == "http_" \o ToString(status)

\* data.error.message, else data.message, of a response body.
BodyMessage(b) == IF b = "none" THEN None ELSE "message of the body"

\* `HTTP ${status} Error`
HttpStatusMessage(status) == "HTTP " \o ToString(status) \o " Error"

\* BaseClient.mapStatusToErrorType
mapStatusToErrorType(status) ==
    IF status >= 500 THEN "api_error"
    ELSE IF status = 429 THEN "rate_limit_error"
    ELSE IF status = 401 THEN "authentication_error"
    ELSE IF status = 403 THEN "permission_error"
    ELSE IF status = 404 THEN "not_found_error"
    ELSE IF status >= 400 THEN "invalid_request_error"
    ELSE "api_error"

\* BaseClient.createErrorFromResponse
createErrorFromResponse(response) ==
    [kind |-> "MagpieError",
     status |-> response.status,
     type |-> mapStatusToErrorType(response.status),
     code |-> IF BodyHasError(response.body)
              THEN BodyErrorCode(response.body)
              ELSE HttpStatusCode(response.status),
     message |-> IF BodyMessage(response.body) # None
                 THEN BodyMessage(response.body)
                 ELSE HttpStatusMessage(response.status),
     requestId |-> response.headers["request-id"],
     data |-> "none",
     headers |-> response.headers]

\* MagpieError.isValidErrorType
isValidErrorType(type) ==
    type \in {"api_error", "authentication_error", "card_error",
              "idempotency_error", "invalid_request_error", "rate_limit_error",
              "validation_error", "permission_error", "network_error",
              "not_found_error", "timeout_error", "configuration_error"}

\* MagpieError.mapStatusToType
mapStatusToType(status, apiType) ==
    IF apiType # None /\ isValidErrorType(apiType) THEN apiType
    ELSE IF status = 0 THEN "api_error"
    ELSE CASE status = 400 -> "invalid_request_error"
           [] status = 401 -> "authentication_error"
           [] status = 403 -> "permission_error"
           [] status = 404 -> "not_found_error"
           [] status = 409 -> "idempotency_error"
           [] status = 422 -> "validation_error"
           [] status = 429 -> "rate_limit_error"
           [] OTHER -> "api_error"

\* MagpieError.mapCodeToType
mapCodeToType(code) ==
    IF code = None THEN "network_error"
    ELSE CASE code \in {"ENOTFOUND", "ECONNREFUSED", "ECONNRESET", "EPIPE"} -> "network_error"
           [] code = "ETIMEDOUT" -> "timeout_error"
           [] OTHER -> "network_error"

\* MagpieError.fromAxiosError. A response whose body is empty has falsy data
\* and takes the branch of the network errors.
fromAxiosError(error) ==
    IF error.hasResponse /\ error.body # "none"
    THEN [kind |-> "MagpieError",
          status |-> error.status,
          type |-> mapStatusToType(error.status, BodyErrorType(error.body)),
          code |-> IF BodyHasError(error.body)
                   THEN BodyErrorCode(error.body)
                   ELSE HttpStatusCode(error.status),
          message |-> BodyMessage(error.body),
          requestId |-> IF error.headers["request-id"] # None
                        THEN error.headers["request-id"]
                        ELSE error.headers["x-request-id"],
          data |-> "none",
          headers |-> error.headers]
    ELSE [kind |-> "MagpieError",
          status |-> 0,
          type |-> mapCodeToType(error.code),
          code |-> error.code,
          message |-> error.message,
          requestId |-> None,
          data |-> "none",
          headers |-> NoResponseHeaders]

\* MagpieError.isRetryable, of an error of the given type.
isRetryable(type) ==
    type \in {"api_error", "rate_limit_error", "network_error", "timeout_error"}

\* What `request._retryCount` throws when error.config is undefined.
TypeErrorResult == [kind |-> "TypeError", status |-> 0, type |-> None, code |-> None,
                    message |-> "Cannot read properties of undefined",
                    requestId |-> None, data |-> "none", headers |-> NoResponseHeaders]

\* An ApiResponse that carries the status alone.
ApiResponse_StatusOnly(response) ==
    [kind |-> "resolved", status |-> response.status, type |-> None, code |-> None,
     message |-> None, requestId |-> "null", data |-> "none",
     headers |-> NoResponseHeaders]

\* The ApiResponse request() resolves with.
ApiResponse(response) ==
    [kind |-> "resolved", status |-> response.status, type |-> None, code |-> None,
     message |-> None,
     requestId |-> IF response.headers["request-id"] # None
                   THEN response.headers["request-id"]
                   ELSE "null",
     data |-> response.body,
     headers |-> response.headers]

(***************************************************************************)
(* The webhook verifier                                                    *)
(* Strings are sequences of one-character strings.                         *)
(***************************************************************************)
\* Longest payload the model signs and verifies.
MaxPayloadLen == 2

\* All strings over an alphabet, from length lo up to length hi.
Strings(alphabet, lo, hi) == UNION { [1 .. n -> alphabet] : n \in lo .. hi }

\* Raw payloads: texts over the two braces. "{}" is the one that is JSON.
Payloads == Strings({"{", "}"}, 0, MaxPayloadLen)

\* Webhook endpoint secrets.
Secrets == {<<"a">>, <<"b">>, <<"a", "b">>}

Algorithms == {"sha1", "sha256", "sha512"}

\* WebhookUtils.DEFAULT_CONFIG
DefaultAlgorithm == "sha256"
DefaultPrefix == <<"v", "1", "=">>
DefaultSignatureHeader == "x-magpie-signature"
DefaultTimestampHeader == "x-magpie-timestamp"
DefaultTolerance == 300

Prefixes == {DefaultPrefix, <<"s", "=">>}

\* WebhookSignatureConfig as a caller passes it: each field set or left out.
SignatureConfigs ==
    { [algorithm |-> a, hasPrefix |-> TRUE, prefix |-> p, signatureHeader |-> None,
       timestampHeader |-> None, hasTolerance |-> FALSE, tolerance |-> 0] :
        a \in Algorithms \cup {None}, p \in Prefixes }
    \cup { [algorithm |-> a, hasPrefix |-> FALSE, prefix |-> DefaultPrefix,
            signatureHeader |-> None, timestampHeader |-> None,
            hasTolerance |-> FALSE, tolerance |-> 0] :
        a \in Algorithms \cup {None} }

\* Values of config.tolerance, in seconds.
Tolerances == {0, 1, -1}

\* The configs of the calls that read the headers: the header of the
\* signature named or left out, the tolerance given or left out.
HeaderConfigs ==
    { [algorithm |-> None, hasPrefix |-> FALSE, prefix |-> DefaultPrefix,
       signatureHeader |-> h, timestampHeader |-> None,
       hasTolerance |-> FALSE, tolerance |-> 0] : h \in {None, "X-Hook-Signature"} }
    \cup { [algorithm |-> None, hasPrefix |-> FALSE, prefix |-> DefaultPrefix,
            signatureHeader |-> h, timestampHeader |-> None,
            hasTolerance |-> TRUE, tolerance |-> t] :
            h \in {None, "X-Hook-Signature"}, t \in Tolerances }

\* { ...DEFAULT_CONFIG, ...config }
finalConfig(cfg) ==
    [algorithm |-> IF cfg.algorithm = None THEN DefaultAlgorithm ELSE cfg.algorithm,
     prefix |-> IF cfg.hasPrefix THEN cfg.prefix ELSE DefaultPrefix,
     signatureHeader |-> IF cfg.signatureHeader = None THEN DefaultSignatureHeader
                         ELSE cfg.signatureHeader,
     timestampHeader |-> IF cfg.timestampHeader = None THEN DefaultTimestampHeader
                         ELSE cfg.timestampHeader,
     tolerance |-> IF cfg.hasTolerance THEN cfg.tolerance ELSE DefaultTolerance]

\* The value of a hex digit, in either letter case; -1 for any other character.
HexValue(c) ==
    CASE c = "0" -> 0 [] c = "1" -> 1 [] c = "2" -> 2 [] c = "3" -> 3
      [] c = "4" -> 4 [] c = "5" -> 5 [] c = "6" -> 6 [] c = "7" -> 7
      [] c = "8" -> 8 [] c = "9" -> 9
      [] c \in {"a", "A"} -> 10 [] c \in {"b", "B"} -> 11 [] c \in {"c", "C"} -> 12
      [] c \in {"d", "D"} -> 13 [] c \in {"e", "E"} -> 14 [] c \in {"f", "F"} -> 15
      [] OTHER -> -1

HexDigits == <<"0", "1", "2", "3", "4", "5", "6", "7",
               "8", "9", "a", "b", "c", "d", "e", "f">>

\* digest('hex'): n written with w lowercase hex digits.
RECURSIVE ToHex(_, _)
ToHex(n, w) ==
    IF w = 0 THEN <<>>
    ELSE Append(ToHex(n \div 16, w - 1), HexDigits[(n % 16) + 1])

\* The position of a character in the alphabets of payloads and secrets.
CharCode(c) ==
    CASE c = "{" -> 1 [] c = "}" -> 2 [] c = "a" -> 1 [] c = "b" -> 2 [] OTHER -> 3

\* A string read as a number in base 4: distinct strings, distinct numbers.
RECURSIVE StringCode(_)
StringCode(str) ==
    IF str = <<>> THEN 0
    ELSE 4 * StringCode(SubSeq(str, 1, Len(str) - 1)) + CharCode(str[Len(str)])

\* Number of four-digit blocks of a digest: the real 40, 64 and 128 hex
\* digits scaled down to 4, 8 and 12.
DigestBlocks(algorithm) ==
    CASE algorithm = "sha1" -> 1
      [] algorithm = "sha256" -> 2
      [] OTHER -> 3

\* An odd multiplier per algorithm (a bijection modulo a power of two).
AlgorithmSalt(algorithm) ==
    CASE algorithm = "sha1" -> 7
      [] algorithm = "sha256" -> 11
      [] OTHER -> 13

\* createHmac(algorithm, secret).update(payload): an idealised keyed hash,
\* a function of key and message that has no collisions on the model's
\* inputs. Block i of the digest, as a 16-bit number.
Hmac(algorithm, secret, payload, i) ==
    ((AlgorithmSalt(algorithm) + 2 * i) * (1024 * StringCode(secret) + StringCode(payload)) + i)
        % 65536

\* .digest('hex') of the first k blocks.
RECURSIVE HexDigest(_, _, _, _)
HexDigest(algorithm, secret, payload, k) ==
    IF k = 0 THEN <<>>
    ELSE HexDigest(algorithm, secret, payload, k - 1)
            \o ToHex(Hmac(algorithm, secret, payload, k), 4)

\* WebhookUtils.generateSignature
generateSignature(payload, secret, algorithm) ==
    HexDigest(algorithm, secret, payload, DigestBlocks(algorithm))

\* WebhookUtils.generateTestSignature
generateTestSignature(payload, secret, algorithm, prefix) ==
    prefix \o generateSignature(payload, secret, algorithm)

\* String.prototype.startsWith
startsWith(str, prefix) ==
    Len(str) >= Len(prefix) /\ SubSeq(str, 1, Len(prefix)) = prefix

\* String.prototype.slice(start)
slice(str, start) == SubSeq(str, start + 1, Len(str))

\* parseSignature with the slice starting one character early.
parseSignature_SliceOffByOne(signature, prefix) ==
    IF ~signature.isString \/ ~startsWith(signature.chars, prefix)
    THEN [threw |-> TRUE, signature |-> <<>>]
    ELSE [threw |-> FALSE, signature |-> slice(signature.chars, Len(prefix) - 1)]

\* WebhookUtils.parseSignature. A signature that is no string has no
\* startsWith, and the call throws like the format check does.
parseSignature(signature, prefix) ==
    IF ~signature.isString \/ ~startsWith(signature.chars, prefix)
    THEN [threw |-> TRUE, signature |-> <<>>]
    ELSE [threw |-> FALSE, signature |-> slice(signature.chars, Len(prefix))]

\* Buffer.from(str, 'hex'): one byte per pair of hex digits, ending at the
\* first pair that is not hex; a trailing single character is dropped.
RECURSIVE BufferFromHex(_)
BufferFromHex(str) ==
    IF Len(str) < 2 \/ HexValue(str[1]) < 0 \/ HexValue(str[2]) < 0 THEN <<>>
    ELSE <<16 * HexValue(str[1]) + HexValue(str[2])>> \o BufferFromHex(SubSeq(str, 3, Len(str)))

\* WebhookUtils.timingSafeEqual: "true", "false", or "throw" when
\* crypto.timingSafeEqual is given buffers of different byte lengths.
timingSafeEqual(a, b) ==
    IF Len(a) # Len(b) THEN "false"
    ELSE IF Len(BufferFromHex(a)) # Len(BufferFromHex(b)) THEN "throw"
    ELSE IF BufferFromHex(a) = BufferFromHex(b) THEN "true"
    ELSE "false"

\* What a call of the verifier ends with: a MagpieError with its code (and
\* the header its message names), an event, a boolean, or an error that is no
\* MagpieError.
WebhookError(code) == [kind |-> "MagpieError", value |-> FALSE, code |-> code, header |-> None]
WebhookEvent == [kind |-> "event", value |-> TRUE, code |-> None, header |-> None]
BooleanResult(b) == [kind |-> "boolean", value |-> b, code |-> None, header |-> None]
ThrownError == [kind |-> "Error", value |-> FALSE, code |-> None, header |-> None]

\* The try block of verifySignature: "true", "false", or "throw".
verifySignatureTry(payload, signature, secret, cfg) ==
    LET parsedSignature == parseSignature(signature, finalConfig(cfg).prefix)
        expectedSignature == generateSignature(payload, secret, finalConfig(cfg).algorithm)
    IN IF parsedSignature.threw THEN "throw"
       ELSE timingSafeEqual(parsedSignature.signature, expectedSignature)

\* verifySignature without its catch clause.
verifySignatureCatch_Rethrow(outcome) ==
    IF outcome = "throw" THEN ThrownError ELSE BooleanResult(outcome = "true")

\* The catch clause of verifySignature: whatever the try block threw, false.
verifySignatureCatch(outcome) ==
    IF outcome = "throw" THEN BooleanResult(FALSE) ELSE BooleanResult(outcome = "true")

\* WebhookUtils.verifySignature
verifySignature(payload, signature, secret, cfg) ==
    verifySignatureCatch(verifySignatureTry(payload, signature, secret, cfg)).value

\* JSON.parse succeeds: over the braces, "{}" is the only JSON text.
IsJson(payload) == payload = <<"{", "}">>

\* constructEvent parsing the payload before it verifies the signature.
constructEvent_ParseFirst(payload, signature, secret, cfg) ==
    IF ~IsJson(payload)
    THEN [result |-> WebhookError("webhook_payload_invalid"),
          trace |-> <<"JSON.parse">>]
    ELSE IF ~verifySignature(payload, signature, secret, cfg)
    THEN [result |-> WebhookError("webhook_signature_invalid"),
          trace |-> <<"JSON.parse", "verifySignature">>]
    ELSE [result |-> WebhookEvent, trace |-> <<"JSON.parse", "verifySignature">>]

\* WebhookUtils.constructEvent: the outcome, and the steps taken in order.
constructEvent(payload, signature, secret, cfg) ==
    IF ~verifySignature(payload, signature, secret, cfg)
    THEN [result |-> WebhookError("webhook_signature_invalid"),
          trace |-> <<"verifySignature">>]
    ELSE IF ~IsJson(payload)
    THEN [result |-> WebhookError("webhook_payload_invalid"),
          trace |-> <<"verifySignature", "JSON.parse">>]
    ELSE [result |-> WebhookEvent, trace |-> <<"verifySignature", "JSON.parse">>]

\* How a signature header value came about: signed with generateTestSignature
\* from the recorded inputs, or written by hand.
Signed(payload, secret, algorithm, prefix) ==
    [isString |-> TRUE,
     chars |-> generateTestSignature(payload, secret, algorithm, prefix),
     signed |-> TRUE,
     payload |-> payload, secret |-> secret, algorithm |-> algorithm, prefix |-> prefix]

Handwritten(isString, chars) ==
    [isString |-> isString, chars |-> chars, signed |-> FALSE,
     payload |-> <<>>, secret |-> <<>>, algorithm |-> None, prefix |-> <<>>]

\* Header values no signer produced: a value that is no string, the empty
\* string, a bare prefix, and a prefix followed by characters that are not hex.
MalformedSignatures ==
    { Handwritten(FALSE, <<>>),
      Handwritten(TRUE, <<>>),
      Handwritten(TRUE, DefaultPrefix),
      Handwritten(TRUE, DefaultPrefix \o <<"z", "z", "z", "z", "z", "z", "z", "z">>) }

SignatureValues ==
    { Signed(p, s, a, x) : p \in Payloads, s \in Secrets, a \in Algorithms, x \in Prefixes }
        \cup MalformedSignatures

(***************************************************************************)
(* Headers and timestamps                                                  *)
(***************************************************************************)
\* The value of a header: a string, an array of strings, or none.
StringHeader(v) == [kind |-> "string", items |-> <<v>>]
ArrayHeader(items) == [kind |-> "array", items |-> items]
AbsentHeader == [kind |-> "undefined", items |-> <<>>]

\* undefined, where a string is expected.
Undefined == Handwritten(FALSE, <<>>)

\* The names a headers object of the model can have: the default names and a
\* name of the caller's own, as configured and in other letter-casings.
WebhookHeaderNames ==
    {"x-magpie-signature", "X-Magpie-Signature", "x-hook-signature", "X-Hook-Signature",
     "x-magpie-timestamp", "X-MAGPIE-TIMESTAMP"}

\* A headers object with at most one signature and one timestamp header.
WebhookHeaders(sigName, sigValue, tsName, tsValue) ==
    [k \in WebhookHeaderNames |->
        IF k = sigName THEN sigValue ELSE IF k = tsName THEN tsValue ELSE AbsentHeader]

NoWebhookHeaders == WebhookHeaders(None, AbsentHeader, None, AbsentHeader)

\* WebhookUtils.getHeader
getHeader(headers, name) ==
    LET Property(k) == IF k \in DOMAIN headers THEN headers[k] ELSE AbsentHeader
        value == IF Property(name).kind # "undefined" THEN Property(name)
                 ELSE Property(toLowerCase(name))
    IN IF value.kind = "array"
       THEN IF value.items = <<>> THEN Undefined ELSE value.items[1]
       ELSE IF value.kind = "string" THEN value.items[1]
       ELSE Undefined

\* !value, for undefined and strings.
Falsy(value) == ~value.isString \/ value.chars = <<>>

\* The value of a decimal digit; -1 for any other character.
DigitValue(c) == IF HexValue(c) <= 9 THEN HexValue(c) ELSE -1

\* Number.prototype.toString of a natural number.
RECURSIVE Decimal(_)
Decimal(n) ==
    IF n < 10 THEN <<HexDigits[n + 1]>>
    ELSE Append(Decimal(n \div 10), HexDigits[(n % 10) + 1])

\* The number the leading decimal digits of a string stand for.
RECURSIVE LeadingDigits(_, _)
LeadingDigits(str, acc) ==
    IF str = <<>> \/ DigitValue(str[1]) < 0 THEN acc
    ELSE LeadingDigits(Tail(str), 10 * acc + DigitValue(str[1]))

\* parseInt: the number at the start of the string, NaN when the string does
\* not start with one.
parseInt(str) ==
    IF str # <<>> /\ str[1] = "-" /\ Len(str) >= 2 /\ DigitValue(str[2]) >= 0
    THEN [nan |-> FALSE, value |-> 0 - LeadingDigits(Tail(str), 0)]
    ELSE IF str = <<>> \/ DigitValue(str[1]) < 0 THEN [nan |-> TRUE, value |-> 0]
    ELSE [nan |-> FALSE, value |-> LeadingDigits(str, 0)]

\* A number that is not NaN.
Number(n) == [nan |-> FALSE, value |-> n]

\* The tolerance argument of isValidTimestamp: given, or left out.
ToleranceArg(given, value) == [given |-> given, value |-> value]

\* The default of the tolerance parameter of isValidTimestamp.
DefaultToleranceParameter == 300

\* Math.abs
Abs(n) == IF n < 0 THEN 0 - n ELSE n

\* isValidTimestamp taking the tolerance by its absolute value.
isValidTimestamp_AbsTolerance(timestamp, tolerance, dateNow) ==
    LET tol == IF tolerance.given THEN tolerance.value ELSE DefaultToleranceParameter
        now == dateNow \div 1000
    IN ~timestamp.nan /\ Abs(now - timestamp.value) <= Abs(tol)

\* WebhookUtils.isValidTimestamp, with the value Date.now() returned. A
\* comparison with NaN is false.
isValidTimestamp(timestamp, tolerance, dateNow) ==
    LET tol == IF tolerance.given THEN tolerance.value ELSE DefaultToleranceParameter
        now == dateNow \div 1000
    IN ~timestamp.nan /\ Abs(now - timestamp.value) <= tol

\* The error of a missing signature header; its message names the header.
MissingSignatureError(name) ==
    [kind |-> "MagpieError", value |-> FALSE, code |-> "webhook_signature_missing",
     header |-> name]

\* verifySignatureWithTimestamp without the check for a missing signature.
verifySignatureWithTimestamp_NoMissingCheck(payload, headers, secret, cfg, dateNow) ==
    LET signature == getHeader(headers, finalConfig(cfg).signatureHeader)
        timestamp == getHeader(headers, finalConfig(cfg).timestampHeader)
    IN IF /\ ~Falsy(timestamp)
          /\ ~isValidTimestamp(parseInt(timestamp.chars),
                               ToleranceArg(TRUE, finalConfig(cfg).tolerance), dateNow)
       THEN WebhookError("webhook_timestamp_invalid")
       ELSE verifySignatureCatch(verifySignatureTry(payload, signature, secret, cfg))

\* WebhookUtils.verifySignatureWithTimestamp, with the value Date.now()
\* returned.
verifySignatureWithTimestamp(payload, headers, secret, cfg, dateNow) ==
    LET signature == getHeader(headers, finalConfig(cfg).signatureHeader)
        timestamp == getHeader(headers, finalConfig(cfg).timestampHeader)
    IN IF Falsy(signature)
       THEN MissingSignatureError(finalConfig(cfg).signatureHeader)
       ELSE IF /\ ~Falsy(timestamp)
               /\ ~isValidTimestamp(parseInt(timestamp.chars),
                                    ToleranceArg(TRUE, finalConfig(cfg).tolerance), dateNow)
       THEN WebhookError("webhook_timestamp_invalid")
       ELSE verifySignatureCatch(verifySignatureTry(payload, signature, secret, cfg))

(***************************************************************************)
(* Inputs of the calls that read headers and timestamps                    *)
(***************************************************************************)
\* Values of Date.now(), in milliseconds: two instants of one second.
DateNows == {1000000, 1000999}

\* Unix seconds around that second: at, next to, and 300 and 301 away.
Timestamps == {699, 700, 999, 1000, 1001, 1300, 1301}

HeaderPayloads == {<<>>, <<"{", "}">>}
HeaderSecrets == {<<"a">>, <<"b">>}

\* Strings of a signature header: signed with the defaults, empty, not hex.
HeaderSignatures ==
    { Signed(p, s, DefaultAlgorithm, DefaultPrefix) : p \in HeaderPayloads, s \in HeaderSecrets }
        \cup { Handwritten(TRUE, <<>>),
               Handwritten(TRUE, DefaultPrefix \o <<"z", "z", "z", "z", "z", "z", "z", "z">>) }

\* Strings of a timestamp header: numbers, the empty string, a word, and a
\* number followed by a letter.
TimestampStrings ==
    { Decimal(t) : t \in Timestamps }
        \cup { <<>>, <<"a", "b", "c">>, Decimal(1000) \o <<"z">> }

\* The signature header of a headers object: none, or a name with a string,
\* an array of two strings or an empty array.
SignatureHeaders ==
    { <<None, AbsentHeader>> }
    \cup ( {"x-magpie-signature", "X-Magpie-Signature", "x-hook-signature", "X-Hook-Signature"}
           \X ( { StringHeader(v) : v \in HeaderSignatures }
                  \cup { ArrayHeader(<<v, Handwritten(TRUE, <<"x">>)>>) : v \in HeaderSignatures }
                  \cup { ArrayHeader(<<>>) } ) )

\* The timestamp header of a headers object.
TimestampHeaders ==
    { <<None, AbsentHeader>> }
    \cup ( {"x-magpie-timestamp", "X-MAGPIE-TIMESTAMP"}
           \X ( { StringHeader(Handwritten(TRUE, c)) : c \in TimestampStrings }
                  \cup { ArrayHeader(<<Handwritten(TRUE, Decimal(699)),
                                       Handwritten(TRUE, Decimal(1000))>>) } ) )

HeaderSets ==
    { WebhookHeaders(g[1], g[2], t[1], t[2]) : g \in SignatureHeaders, t \in TimestampHeaders }

NoWebhookCall ==
    [op |-> "none", payload |-> <<>>, signature |-> Handwritten(FALSE, <<>>),
     secret |-> <<>>,
     config |-> [algorithm |-> None, hasPrefix |-> FALSE, prefix |-> DefaultPrefix,
                 signatureHeader |-> None, timestampHeader |-> None,
                 hasTolerance |-> FALSE, tolerance |-> 0],
     headers |-> NoWebhookHeaders, dateNow |-> 0,
     timestamp |-> Number(0), toleranceArg |-> ToleranceArg(FALSE, 0),
     result |-> [kind |-> "none", value |-> FALSE, code |-> None, header |-> None],
     trace |-> <<>>]

(***************************************************************************)
(* The transport                                                           *)
(***************************************************************************)
\* The validateStatus in force for a request: the per-call override, else the
\* one createAxiosInstance installs (status < 600).
validateStatus(request, status) ==
    IF request.validateStatus = "2xx"
    THEN status >= 200 /\ status < 300
    ELSE status < 600

\* The error the transport rejects with for a response validateStatus refuses.
ResponseError(response) ==
    [hasResponse |-> TRUE, status |-> response.status, body |-> response.body,
     headers |-> response.headers,
     message |-> "Request failed with status code " \o ToString(response.status),
     code |-> IF response.status >= 400 /\ response.status < 500 THEN "ERR_BAD_REQUEST"
              ELSE IF response.status >= 500 /\ response.status < 600 THEN "ERR_BAD_RESPONSE"
              ELSE None]

\* The error the transport rejects with when no response arrived.
TransportError(code) ==
    [hasResponse |-> FALSE, status |-> 0, body |-> "none",
     headers |-> NoResponseHeaders,
     message |-> "transport error " \o code,
     code |-> code]

(***************************************************************************)
(* The retry policy                                                        *)
(***************************************************************************)
\* shouldRetry without the refusal of POST requests that lack the key.
shouldRetry_NoPostCheck(error, request) ==
    IF request._retryCount >= maxRetries THEN FALSE
    ELSE IF request._retryable = "false" THEN FALSE
    ELSE IF ~error.hasResponse
         THEN error.code \in {"ENOTFOUND", "ECONNRESET", "ETIMEDOUT", "ECONNREFUSED"}
    ELSE error.status >= 500 \/ error.status = 429

\* shouldRetry without the check of the _retryable mark.
shouldRetry_IgnoresRetryable(error, request) ==
    IF request._retryCount >= maxRetries THEN FALSE
    ELSE IF /\ toLowerCase(request.method) \notin {"get", "head", "options", "put", "delete"}
            /\ toLowerCase(request.method) = "post"
            /\ HeaderGet(request.headers, "idempotency-key") = None
         THEN FALSE
    ELSE IF ~error.hasResponse
         THEN error.code \in {"ENOTFOUND", "ECONNRESET", "ETIMEDOUT", "ECONNREFUSED"}
    ELSE error.status >= 500 \/ error.status = 429

\* shouldRetry without the test of the retry budget.
shouldRetry_NoBudget(error, request) ==
    IF request._retryable = "false" THEN FALSE
    ELSE IF /\ toLowerCase(request.method) = "post"
            /\ HeaderGet(request.headers, "idempotency-key") = None
         THEN FALSE
    ELSE IF ~error.hasResponse
         THEN error.code \in {"ENOTFOUND", "ECONNRESET", "ETIMEDOUT", "ECONNREFUSED"}
    ELSE error.status >= 500 \/ error.status = 429

\* BaseClient.shouldRetry
shouldRetry(error, request) ==
    IF request._retryCount >= maxRetries THEN FALSE
    ELSE IF request._retryable = "false" THEN FALSE
    ELSE IF /\ toLowerCase(request.method) \notin {"get", "head", "options", "put", "delete"}
            /\ toLowerCase(request.method) = "post"
            /\ HeaderGet(request.headers, "idempotency-key") = None
         THEN FALSE
    ELSE IF ~error.hasResponse
         THEN error.code \in {"ENOTFOUND", "ECONNRESET", "ETIMEDOUT", "ECONNREFUSED"}
    ELSE error.status >= 500 \/ error.status = 429

\* An attempt that takes its credential from the defaults of the HTTP client
\* at the moment it is dispatched.
Attempt_AuthFromDefaults(request) ==
    [method |-> request.method,
     idempotencyKey |-> HeaderGet(request.headers, "X-Idempotency-Key"),
     auth |-> defaultsAuth,
     payload |-> request.data,
     params |-> request.params]

\* What one attempt puts on the wire. The credential is the one the defaults
\* of the HTTP client held when the request config was merged with them.
Attempt(request) ==
    [method |-> request.method,
     idempotencyKey |-> HeaderGet(request.headers, "X-Idempotency-Key"),
     auth |-> request.auth,
     payload |-> request.data,
     params |-> request.params]

\* calculateRetryDelay without the ceiling.
calculateRetryDelay_NoCeiling(retryCount, random) ==
    LET exponentialDelay == retryDelay * 2 ^ (retryCount - 1)
    IN exponentialDelay + (random * exponentialDelay) \div 100

\* BaseClient.calculateRetryDelay, with the value Math.random() returned.
calculateRetryDelay(retryCount, random) ==
    LET baseDelay == retryDelay
        exponentialDelay == baseDelay * 2 ^ (retryCount - 1)
        jitter == (random * exponentialDelay) \div 100
    IN IF exponentialDelay + jitter < MaxRetryDelay
       THEN exponentialDelay + jitter
       ELSE MaxRetryDelay

\* BaseClient.getApiKey
getApiKey == secretKey

(***************************************************************************)
(* The request engine                                                      *)
(***************************************************************************)
Init ==
    /\ maxRetries \in -1 .. MaxRetriesBound
    /\ retryDelay = DefaultRetryDelay
    /\ secretKey = InitialKey
    /\ defaultsAuth = InitialKey
    /\ keyCall = NoKeyCall
    /\ pc = "idle"
    /\ config = NoConfig
    /\ wire = <<>>
    /\ history = <<>>
    /\ data = "none"
    /\ responseHeaders = NoResponseHeaders
    /\ delay = 0
    /\ result = Pending
    /\ wh = NoWebhookCall

\* The data of a request placed without regard to the method: always the
\* payload.
placeData_AlwaysPayload(base, method, requestData) ==
    IF requestData.given THEN [base EXCEPT !.data = requestData] ELSE base

\* BaseClient.request, the placement of the data by the method: the payload
\* for POST, PUT and PATCH, spread into the query parameters otherwise.
placeData(base, method, requestData) ==
    IF toLowerCase(method) \in {"post", "put", "patch"} /\ requestData.given
    THEN [base EXCEPT !.data = requestData]
    ELSE IF requestData.given
    THEN [base EXCEPT !.params = Spread(base.params, requestData.fields)]
    ELSE base

\* BaseClient.request up to its await: build the config and dispatch the
\* first attempt.
request(method, requestData, idempotencyKey, expand, retryable, axiosConfig) ==
    /\ pc = "idle"
    /\ LET base == [method |-> method,
                    headers |-> axiosConfig.headers,
                    _retryable |-> None,
                    _retryCount |-> 0,
                    validateStatus |-> axiosConfig.validateStatus,
                    auth |-> defaultsAuth,
                    data |-> NoData,
                    params |-> EmptyObject]
           bodied == placeData(base, method, requestData)
           keyed == IF idempotencyKey # None
                    THEN [bodied EXCEPT !.headers =
                            HeaderSet(bodied.headers, "X-Idempotency-Key", idempotencyKey)]
                    ELSE bodied
           expanded == IF expand.given /\ Len(expand.list) > 0
                       THEN [keyed EXCEPT !.params =
                               Spread(keyed.params, Object(<<>>, expand.list))]
                       ELSE keyed
           final == IF retryable = "false"
                    THEN [expanded EXCEPT !._retryable = "false"]
                    ELSE expanded
       IN /\ config' = final
          /\ wire' = <<Attempt(final)>>
    /\ pc' = "inflight"
    /\ history' = <<>>
    /\ result' = Pending
    /\ UNCHANGED <<clientVars, data, responseHeaders, delay, wh>>

\* The translation of a failure that keeps the code of the first failure of
\* the request.
translate_KeepsFirstCode(error) ==
    IF history # <<>> /\ history[1].kind = "network"
    THEN [fromAxiosError(error) EXCEPT !.code = history[1].code]
    ELSE fromAxiosError(error)

\* The error handler's translation of the failure it gives up on.
translate(error) == fromAxiosError(error)

\* The response interceptor's error handler, up to its await on the delay.
ResponseRejected(error, outcome) ==
    /\ history' = Append(history, outcome)
    /\ data' = error.body
    /\ responseHeaders' = error.headers
    /\ IF shouldRetry(error, config)
       THEN /\ config' = [config EXCEPT !._retryCount = config._retryCount + 1]
            /\ \E random \in Randoms :
                  delay' = calculateRetryDelay(config._retryCount + 1, random)
            /\ pc' = "backoff"
            /\ UNCHANGED result
       ELSE /\ result' = translate(error)
            /\ pc' = "done"
            /\ UNCHANGED <<config, delay>>
    /\ UNCHANGED <<clientVars, wire, wh>>

\* The response interceptor's success handler.
ResponseFulfilled(response, outcome) ==
    /\ history' = Append(history, outcome)
    /\ result' = IF response.status >= 400
                 THEN createErrorFromResponse(response)
                 ELSE ApiResponse(response)
    /\ pc' = "done"
    /\ data' = response.body
    /\ responseHeaders' = response.headers
    /\ UNCHANGED <<clientVars, config, wire, delay, wh>>

\* The server answers the attempt in flight with an HTTP response.
HttpResponds(status, body, headers) ==
    /\ pc = "inflight"
    /\ LET response == [status |-> status, body |-> body, headers |-> headers]
       IN IF validateStatus(config, status)
          THEN ResponseFulfilled(response, HttpOutcome(status))
          ELSE ResponseRejected(ResponseError(response), HttpOutcome(status))

\* The attempt in flight fails without a response; the error carries the
\* request config.
TransportFails(code) ==
    /\ pc = "inflight"
    /\ ResponseRejected(TransportError(code), NetworkOutcome(code))

\* The attempt in flight fails with an error that has no config object: the
\* error handler reads a property of undefined.
TransportFailsNoConfig ==
    /\ pc = "inflight"
    /\ history' = Append(history, NoConfigOutcome)
    /\ result' = TypeErrorResult
    /\ pc' = "done"
    /\ data' = "none"
    /\ responseHeaders' = NoResponseHeaders
    /\ UNCHANGED <<clientVars, config, wire, delay, wh>>

\* A retry that does not wait for the attempt in flight to settle.
RetryDispatch_WithoutAwait ==
    /\ pc \in {"backoff", "inflight"}
    /\ Len(wire) <= maxRetries
    /\ wire' = Append(wire, Attempt(config))
    /\ pc' = "inflight"
    /\ data' = "none"
    /\ responseHeaders' = NoResponseHeaders
    /\ delay' = 0
    /\ UNCHANGED <<clientVars, config, history, result, wh>>

\* The backoff delay elapsed: the error handler dispatches the request again.
RetryDispatch ==
    /\ pc = "backoff"
    /\ wire' = Append(wire, Attempt(config))
    /\ pc' = "inflight"
    /\ data' = "none"
    /\ responseHeaders' = NoResponseHeaders
    /\ delay' = 0
    /\ UNCHANGED <<clientVars, config, history, result, wh>>

\* The caller has received the outcome; the client is ready for another call.
Return ==
    /\ pc = "done"
    /\ pc' = "idle"
    /\ config' = NoConfig
    /\ wire' = <<>>
    /\ history' = <<>>
    /\ result' = Pending
    /\ data' = "none"
    /\ responseHeaders' = NoResponseHeaders
    /\ UNCHANGED <<clientVars, delay, wh>>

\* BaseClient.setApiKey
setApiKey(apiKey) ==
    /\ IF ~apiKey.isString \/ apiKey.chars = <<>>
       THEN /\ keyCall' = [called |-> TRUE, key |-> apiKey, before |-> secretKey,
                           threw |-> "Error", message |-> "Missing or invalid API key"]
            /\ UNCHANGED <<secretKey, defaultsAuth>>
       ELSE IF /\ ~startsWith(apiKey.chars, <<"s", "k", "_">>)
               /\ ~startsWith(apiKey.chars, <<"p", "k", "_">>)
       THEN /\ keyCall' = [called |-> TRUE, key |-> apiKey, before |-> secretKey,
                           threw |-> "Error",
                           message |-> "Invalid API key - must start with sk_ or pk_"]
            /\ UNCHANGED <<secretKey, defaultsAuth>>
       ELSE /\ secretKey' = apiKey.chars
            /\ defaultsAuth' = apiKey.chars
            /\ keyCall' = [called |-> TRUE, key |-> apiKey, before |-> secretKey,
                           threw |-> None, message |-> None]
    /\ UNCHANGED <<maxRetries, retryDelay, pc, config, wire, history, data, responseHeaders, delay, result, wh>>

Next ==
    \/ \E m \in HttpMethod, k \in IdempotencyKeys \cup {None},
          r \in RetryableOptions, a \in AxiosConfigs :
             request(m, NoData, k, NoExpand, r, a)
    \/ \E s \in Statuses, b \in Bodies : HttpResponds(s, b, NoResponseHeaders)
    \/ \E c \in ErrorCodes : TransportFails(c)
    \/ TransportFailsNoConfig
    \/ RetryDispatch
    \/ Return

Spec == Init /\ [][Next]_vars

(***************************************************************************)
(* The client under calls of setApiKey and with either retry delay         *)
(***************************************************************************)
InitClient ==
    /\ maxRetries = MaxRetriesBound
    /\ retryDelay \in RetryDelays
    /\ secretKey = InitialKey
    /\ defaultsAuth = InitialKey
    /\ keyCall = NoKeyCall
    /\ pc = "idle"
    /\ config = NoConfig
    /\ wire = <<>>
    /\ history = <<>>
    /\ data = "none"
    /\ responseHeaders = NoResponseHeaders
    /\ delay = 0
    /\ result = Pending
    /\ wh = NoWebhookCall

NextClient ==
    \/ \E k \in ApiKeys : setApiKey(k)
    \/ \E m \in {"GET", "POST"} :
          request(m, NoData, None, NoExpand, None, [validateStatus |-> None, headers |-> NoHeaders])
    \/ \E s \in {200, 503} : HttpResponds(s, "none", NoResponseHeaders)
    \/ \E c \in {"ECONNRESET", "EPIPE"} : TransportFails(c)
    \/ RetryDispatch
    \/ Return

SpecClient == InitClient /\ [][NextClient]_vars

(***************************************************************************)
(* The client under requests with data and expand, and responses that      *)
(* carry request identifiers and messages                                  *)
(***************************************************************************)
RequestStatuses == {200, 404, 429, 503}
RequestBodies == {"none", "flat"}
RequestErrorCodes == {"ECONNRESET", "EPIPE"}

InitRequest ==
    /\ maxRetries \in 0..1
    /\ retryDelay = DefaultRetryDelay
    /\ secretKey = InitialKey
    /\ defaultsAuth = InitialKey
    /\ keyCall = NoKeyCall
    /\ pc = "idle"
    /\ config = NoConfig
    /\ wire = <<>>
    /\ history = <<>>
    /\ data = "none"
    /\ responseHeaders = NoResponseHeaders
    /\ delay = 0
    /\ result = Pending
    /\ wh = NoWebhookCall

NextRequest ==
    \/ \E m \in HttpMethod, d \in DataArgs, x \in ExpandArgs, v \in {None, "2xx"} :
          request(m, d, None, x, None, [validateStatus |-> v, headers |-> NoHeaders])
    \/ \E s \in RequestStatuses, b \in RequestBodies, h \in ResponseHeaderSets :
          HttpResponds(s, b, h)
    \/ \E c \in RequestErrorCodes : TransportFails(c)
    \/ RetryDispatch
    \/ Return

SpecRequest == InitRequest /\ [][NextRequest]_vars

(***************************************************************************)
(* Calls of the webhook verifier                                           *)
(***************************************************************************)
\* A call of WebhookUtils.verifySignature.
VerifySignatureCall(payload, signature, secret, cfg) ==
    /\ wh.op = "none"
    /\ wh' = [NoWebhookCall EXCEPT
                !.op = "verifySignature", !.payload = payload, !.signature = signature,
                !.secret = secret, !.config = cfg,
                !.result = verifySignatureCatch(
                               verifySignatureTry(payload, signature, secret, cfg)),
                !.trace = <<"verifySignature">>]
    /\ UNCHANGED engineVars

\* A call of WebhookUtils.constructEvent.
ConstructEventCall(payload, signature, secret, cfg) ==
    /\ wh.op = "none"
    /\ LET out == constructEvent(payload, signature, secret, cfg)
       IN wh' = [NoWebhookCall EXCEPT
                   !.op = "constructEvent", !.payload = payload, !.signature = signature,
                   !.secret = secret, !.config = cfg,
                   !.result = out.result, !.trace = out.trace]
    /\ UNCHANGED engineVars

\* A call of WebhookUtils.verifySignatureWithTimestamp.
VerifySignatureWithTimestampCall(payload, headers, secret, cfg, dateNow) ==
    /\ wh.op = "none"
    /\ wh' = [NoWebhookCall EXCEPT
                !.op = "verifySignatureWithTimestamp", !.payload = payload,
                !.headers = headers, !.secret = secret, !.config = cfg,
                !.dateNow = dateNow,
                !.result = verifySignatureWithTimestamp(payload, headers, secret, cfg, dateNow),
                !.trace = <<"verifySignatureWithTimestamp">>]
    /\ UNCHANGED engineVars

\* A call of WebhookUtils.isValidTimestamp.
IsValidTimestampCall(timestamp, tolerance, dateNow) ==
    /\ wh.op = "none"
    /\ wh' = [NoWebhookCall EXCEPT
                !.op = "isValidTimestamp", !.timestamp = Number(timestamp),
                !.toleranceArg = tolerance, !.dateNow = dateNow,
                !.result = BooleanResult(isValidTimestamp(Number(timestamp), tolerance, dateNow)),
                !.trace = <<"isValidTimestamp">>]
    /\ UNCHANGED engineVars

\* The caller has the outcome of the call.
WebhookReturn ==
    /\ wh.op # "none"
    /\ wh' = NoWebhookCall
    /\ UNCHANGED engineVars

InitWebhook ==
    /\ maxRetries = 3
    /\ retryDelay = DefaultRetryDelay
    /\ secretKey = InitialKey
    /\ defaultsAuth = InitialKey
    /\ keyCall = NoKeyCall
    /\ pc = "idle"
    /\ config = NoConfig
    /\ wire = <<>>
    /\ history = <<>>
    /\ data = "none"
    /\ responseHeaders = NoResponseHeaders
    /\ delay = 0
    /\ result = Pending
    /\ wh = NoWebhookCall

NextWebhook ==
    \/ /\ wh.op = "none"
       /\ \E p \in Payloads, g \in SignatureValues, s \in Secrets, c \in SignatureConfigs :
             VerifySignatureCall(p, g, s, c)
    \/ /\ wh.op = "none"
       /\ \E p \in Payloads, g \in SignatureValues, s \in Secrets, c \in SignatureConfigs :
             ConstructEventCall(p, g, s, c)
    \/ /\ wh.op = "none"
       /\ \E p \in HeaderPayloads, h \in HeaderSets, s \in HeaderSecrets,
             c \in HeaderConfigs, d \in DateNows :
             VerifySignatureWithTimestampCall(p, h, s, c, d)
    \/ /\ wh.op = "none"
       /\ \E t \in Timestamps, d \in DateNows,
             tol \in { ToleranceArg(TRUE, v) : v \in Tolerances } \cup { ToleranceArg(FALSE, 0) } :
             IsValidTimestampCall(t, tol, d)
    \/ WebhookReturn

SpecWebhook == InitWebhook /\ [][NextWebhook]_vars

(***************************************************************************)
(* Vocabulary of the properties                                            *)
(***************************************************************************)
\* The outcome of the most recent attempt that resolved.
LastOutcome == history[Len(history)]

\* _retryCount as it was when the most recent outcome reached shouldRetry.
CountBefore == IF pc = "backoff" THEN config._retryCount - 1 ELSE config._retryCount

\* The failures the retry policy names as retryable.
RetryableFailure(o) ==
    \/ o.kind = "network" /\ o.code \in {"ENOTFOUND", "ECONNRESET", "ETIMEDOUT", "ECONNREFUSED"}
    \/ o.kind = "http" /\ (o.status >= 500 \/ o.status = 429)

\* The methods the policy retries without asking for an idempotency key.
SafeMethod(m) == m \in {"GET", "HEAD", "OPTIONS", "PUT", "DELETE"}

\* The call carries no idempotency key under any header name.
NoIdempotencyKey ==
    /\ HeaderGet(config.headers, "X-Idempotency-Key") = None
    /\ HeaderGet(config.headers, "idempotency-key") = None

\* The call passed options.idempotencyKey and no header of its own.
KeyFromOptionsOnly ==
    /\ HeaderGet(config.headers, "X-Idempotency-Key") # None
    /\ HeaderGet(config.headers, "idempotency-key") = None

\* C1: a request with a safe method, not marked non-retryable, on a client
\* with the client's own validateStatus, whose every attempt was answered 503,
\* ends after exactly maxRetries + 1 attempts with a MagpieError of type
\* api_error.
C1_RetryCeiling ==
    ( /\ pc = "done"
      /\ maxRetries >= 0
      /\ SafeMethod(config.method)
      /\ config._retryable # "false"
      /\ config.validateStatus = None
      /\ \A i \in 1 .. Len(history) : history[i] = HttpOutcome(503) )
    => ( /\ Len(wire) = maxRetries + 1
         /\ result.kind = "MagpieError"
         /\ result.type = "api_error" )

\* C2: a POST made with options.idempotencyKey whose every attempt failed
\* with an allow-listed connection error ends after maxRetries + 1 attempts,
\* each carrying the same X-Idempotency-Key.
C2_PostWithKeyRetried ==
    ( /\ pc = "done"
      /\ maxRetries >= 0
      /\ config.method = "POST"
      /\ KeyFromOptionsOnly
      /\ config._retryable # "false"
      /\ \A i \in 1 .. Len(history) :
            history[i].kind = "network" /\ RetryableFailure(history[i]) )
    => ( /\ Len(wire) = maxRetries + 1
         /\ \A i \in 1 .. Len(wire) :
               wire[i].idempotencyKey = HeaderGet(config.headers, "X-Idempotency-Key") )

\* C3: once the first attempt of a POST without an idempotency key has been
\* answered 503, the call has failed with exactly one attempt dispatched.
C3_PostWithoutKeyNotRetried ==
    ( /\ Len(history) >= 1
      /\ config.method = "POST"
      /\ NoIdempotencyKey
      /\ history[1] = HttpOutcome(503) )
    => ( /\ pc = "done"
         /\ Len(wire) = 1
         /\ result.kind = "MagpieError" )

\* C3 witness: such a POST on a client that allows retries, the 503
\* delivered to the retry decision as a rejected response.
C3_Witness ==
    /\ pc = "done"
    /\ maxRetries >= 1
    /\ config.method = "POST"
    /\ NoIdempotencyKey
    /\ config._retryable # "false"
    /\ config.validateStatus = "2xx"
    /\ history = <<HttpOutcome(503)>>
    /\ Len(wire) = 1

\* C4: a 4xx response other than 429 ends the call after one attempt with a
\* MagpieError, and a 422 whose body names no code of its own has type
\* validation_error.
C4_NoRetryOn4xx ==
    ( /\ Len(history) >= 1
      /\ history[1].kind = "http"
      /\ history[1].status >= 400 /\ history[1].status < 500
      /\ history[1].status # 429 )
    => ( /\ pc = "done"
         /\ Len(wire) = 1
         /\ result.kind = "MagpieError"
         /\ (history[1].status = 422 /\ result.code = HttpStatusCode(422)
               => result.type = "validation_error") )

\* C7: for a request with a safe method, not marked non-retryable and with
\* retries left, a failed attempt is retried exactly when the failure is an
\* allow-listed connection error, a status >= 500 or a 429.
C7_RetriedIffRetryableFailure ==
    ( /\ pc \in {"backoff", "done"}
      /\ Len(history) >= 1
      /\ SafeMethod(config.method)
      /\ config._retryable # "false"
      /\ CountBefore < maxRetries
      /\ LastOutcome.kind \in {"network", "http"}
      /\ LastOutcome.kind = "http" => LastOutcome.status >= 400 )
    => (pc = "backoff" <=> RetryableFailure(LastOutcome))

\* C8: a call marked retryable === false never dispatches a second attempt.
C8_NonRetryableNeverRetried ==
    config._retryable = "false" => (Len(wire) <= 1 /\ pc # "backoff")

\* C8 witness: a GET marked non-retryable whose only attempt ended in a
\* connection reset, on a client that allows retries.
C8_Witness ==
    /\ pc = "done"
    /\ maxRetries >= 1
    /\ config.method = "GET"
    /\ config._retryable = "false"
    /\ history = <<NetworkOutcome("ECONNRESET")>>
    /\ Len(wire) = 1
    /\ result.kind = "MagpieError"

\* C9: when the configured timeout aborts an attempt (ECONNABORTED) of a
\* request with a safe method, not marked non-retryable and with retries
\* left, the attempt is retried.
C9_TimeoutRetried ==
    ( /\ pc \in {"backoff", "done"}
      /\ Len(history) >= 1
      /\ SafeMethod(config.method)
      /\ config._retryable # "false"
      /\ CountBefore < maxRetries
      /\ LastOutcome = NetworkOutcome("ECONNABORTED") )
    => pc = "backoff"

\* C10: a call whose last attempt was not a 2xx response and was not retried
\* rejects with a MagpieError.
C10_EveryFailureIsMagpieError ==
    ( /\ pc = "done"
      /\ ~(LastOutcome.kind = "http" /\ LastOutcome.status >= 200 /\ LastOutcome.status < 300) )
    => result.kind = "MagpieError"

\* The call verified a signature made by generateTestSignature with the
\* algorithm and prefix the verification used.
SignedForThisConfig ==
    /\ wh.signature.signed
    /\ wh.signature.algorithm = finalConfig(wh.config).algorithm
    /\ wh.signature.prefix = finalConfig(wh.config).prefix

\* C5: constructEvent parses the payload only after verifySignature returned
\* true; with an invalid signature it raises webhook_signature_invalid
\* whatever the payload, with a valid signature over a payload that is not
\* JSON it raises webhook_payload_invalid, and it returns an event only when
\* the signature is valid and the payload is JSON.
C5_VerifyThenParse ==
    wh.op = "constructEvent" =>
        LET valid == verifySignature(wh.payload, wh.signature, wh.secret, wh.config)
        IN /\ wh.trace[1] = "verifySignature"
           /\ (\E i \in 1 .. Len(wh.trace) : wh.trace[i] = "JSON.parse") => valid
           /\ ~valid => wh.result = WebhookError("webhook_signature_invalid")
           /\ (valid /\ ~IsJson(wh.payload))
                 => wh.result = WebhookError("webhook_payload_invalid")
           /\ wh.result.kind = "event" <=> (valid /\ IsJson(wh.payload))

\* C5 witness: an invalid signature over a payload that is not JSON, answered
\* with the signature error.
C5_Witness ==
    /\ wh.op = "constructEvent"
    /\ ~IsJson(wh.payload)
    /\ wh.signature.signed
    /\ wh.signature.payload = wh.payload
    /\ wh.signature.secret # wh.secret
    /\ wh.result = WebhookError("webhook_signature_invalid")
    /\ wh.trace = <<"verifySignature">>

\* C6: verifySignature of a signature that generateTestSignature made with
\* the same algorithm and prefix returns true when payload and secret are the
\* ones that were signed, and false when either differs.
C6_SignatureRoundTrip ==
    (wh.op = "verifySignature" /\ SignedForThisConfig)
    => wh.result = BooleanResult(wh.signature.payload = wh.payload
                                   /\ wh.signature.secret = wh.secret)

\* C6 witness: a round trip under sha512 and a prefix of the caller's own
\* that verified.
C6_Witness ==
    /\ wh.op = "verifySignature"
    /\ SignedForThisConfig
    /\ wh.config.algorithm = "sha512"
    /\ wh.config.hasPrefix /\ wh.config.prefix # DefaultPrefix
    /\ wh.signature.payload = wh.payload
    /\ wh.signature.secret = wh.secret
    /\ wh.payload # <<>>
    /\ wh.result = BooleanResult(TRUE)

\* The type tag the translation table of the errors gives an HTTP status.
StatusTypeTable(status) ==
    CASE status = 400 -> "invalid_request_error"
      [] status = 401 -> "authentication_error"
      [] status = 403 -> "permission_error"
      [] status = 404 -> "not_found_error"
      [] status = 409 -> "idempotency_error"
      [] status = 422 -> "validation_error"
      [] status = 429 -> "rate_limit_error"
      [] OTHER -> "api_error"

\* The call ended with the error made from an HTTP response of status 400 or
\* more.
EndedWithHttpError ==
    /\ pc = "done"
    /\ LastOutcome.kind = "http"
    /\ LastOutcome.status >= 400

\* C11: when the response body supplies no type, the error a call ends with
\* has the type the table gives its status: 400 invalid_request_error, 401
\* authentication_error, 403 permission_error, 404 not_found_error, 409
\* idempotency_error, 422 validation_error, 429 rate_limit_error, 5xx and
\* anything else api_error.
C11_StatusToType ==
    (EndedWithHttpError /\ BodyErrorType(data) = None)
    => result.type = StatusTypeTable(LastOutcome.status)

\* C12: a type in the response body that is one of the twelve tags is the
\* type of the error the call ends with; a type outside the set is ignored
\* and the status decides.
C12_BodyTypeOverrides ==
    (EndedWithHttpError /\ BodyErrorType(data) # None)
    => result.type = IF isValidErrorType(BodyErrorType(data))
                     THEN BodyErrorType(data)
                     ELSE StatusTypeTable(LastOutcome.status)

\* retryDelay * 2^(n-1) for the retry the error handler is waiting to make.
ExponentialDelay == retryDelay * 2 ^ (config._retryCount - 1)

\* C13 as stated: the delay before retry n is at least retryDelay * 2^(n-1)
\* and at most the smaller of 1.1 times that and 30000 ms.
C13_BackoffBoundAsStated ==
    pc = "backoff" =>
        /\ delay >= ExponentialDelay
        /\ 10 * delay <= 11 * ExponentialDelay
        /\ delay <= MaxRetryDelay

\* C13: the delay before retry n is at least the smaller of
\* retryDelay * 2^(n-1) and 30000 ms, and at most the smaller of 1.1 times
\* retryDelay * 2^(n-1) and 30000 ms.
C13_BackoffBound ==
    pc = "backoff" =>
        /\ config._retryCount >= 1
        /\ delay >= ExponentialDelay \/ delay >= MaxRetryDelay
        /\ 10 * delay <= 11 * ExponentialDelay
        /\ delay <= MaxRetryDelay

\* C13 witness: a second retry whose exponential delay of 40000 ms was cut to
\* the ceiling.
C13_Witness ==
    /\ pc = "backoff"
    /\ config._retryCount = 2
    /\ ExponentialDelay > MaxRetryDelay
    /\ delay = MaxRetryDelay

\* C14: a request first dispatched after setApiKey(k) returned authenticates
\* with k; an attempt already dispatched is not changed by a later step, a
\* swap included; and a retry carries the credential of the request it
\* retries, not the one swapped in since.
C14_KeySwapAffectsLaterRequests ==
    [][ /\ (pc = "idle" /\ pc' = "inflight") => wire'[1].auth = getApiKey
        /\ pc' # "idle" => \A i \in DOMAIN wire : wire'[i] = wire[i]
        /\ (pc = "backoff" /\ pc' = "inflight")
              => wire'[Len(wire')].auth = wire[1].auth ]_vars

\* C14 witness: a retry on the wire with the credential of its request, after
\* a swap to another key during the backoff.
C14_Witness ==
    /\ pc = "inflight"
    /\ Len(wire) = 2
    /\ keyCall.called /\ keyCall.threw = None
    /\ getApiKey = <<"p", "k", "_", "a">>
    /\ wire[1].auth = InitialKey
    /\ wire[2].auth = InitialKey

\* A key setApiKey is to accept: a non-empty string that starts with sk_ or
\* pk_.
ValidKey(key) ==
    /\ key.isString
    /\ Len(key.chars) >= 3
    /\ SubSeq(key.chars, 1, 3) \in {<<"s", "k", "_">>, <<"p", "k", "_">>}

\* C15: after setApiKey with a key that is empty, not a string or without the
\* prefix sk_ or pk_, the call has raised a ConfigurationError and getApiKey
\* and the auth username of the transport are what they were; after
\* setApiKey with a valid key, getApiKey returns that key.
C15_SetApiKeyValidates ==
    keyCall.called =>
        IF ValidKey(keyCall.key)
        THEN keyCall.threw = None /\ getApiKey = keyCall.key.chars
        ELSE /\ keyCall.threw = "ConfigurationError"
             /\ getApiKey = keyCall.before
             /\ defaultsAuth = keyCall.before

\* The signature lacks the prefix the verification is configured with.
LacksPrefix ==
    \/ ~wh.signature.isString
    \/ Len(wh.signature.chars) < Len(finalConfig(wh.config).prefix)
    \/ SubSeq(wh.signature.chars, 1, Len(finalConfig(wh.config).prefix))
          # finalConfig(wh.config).prefix

\* C16: verifySignature returns a boolean for every payload, signature,
\* secret and config, a signature that is no string, is empty, is the bare
\* prefix or has a digest that is not hex included; it returns false when
\* the signature lacks the configured prefix.
C16_VerifySignatureNeverThrows ==
    wh.op = "verifySignature" =>
        /\ wh.result.kind = "boolean"
        /\ LacksPrefix => wh.result = BooleanResult(FALSE)

\* C16 witness: a signature with the prefix and a digest that is not hex, on
\* which the comparison of the buffers throws, answered with false.
C16_Witness ==
    /\ wh.op = "verifySignature"
    /\ ~LacksPrefix
    /\ verifySignatureTry(wh.payload, wh.signature, wh.secret, wh.config) = "throw"
    /\ wh.result = BooleanResult(FALSE)

\* The first string of a header value, undefined when there is none.
FirstValue(v) == IF v.items = <<>> THEN Undefined ELSE v.items[1]

\* The value of the header with the given name in any letter-casing.
HeaderAnyCase(headers, name) ==
    LET found == { k \in DOMAIN headers : /\ toLowerCase(k) = toLowerCase(name)
                                          /\ headers[k].kind # "undefined" }
    IN IF found = {} THEN Undefined ELSE FirstValue(headers[CHOOSE k \in found : TRUE])

\* The signature and the timestamp of the call, by their configured names in
\* any letter-casing, and the current Unix second.
SignatureAnyCase == HeaderAnyCase(wh.headers, finalConfig(wh.config).signatureHeader)
TimestampAnyCase == HeaderAnyCase(wh.headers, finalConfig(wh.config).timestampHeader)
NowSeconds == wh.dateNow \div 1000

\* The timestamp header holds a number within the tolerance of now.
WithinTolerance ==
    /\ ~parseInt(TimestampAnyCase.chars).nan
    /\ parseInt(TimestampAnyCase.chars).value - NowSeconds <= finalConfig(wh.config).tolerance
    /\ NowSeconds - parseInt(TimestampAnyCase.chars).value <= finalConfig(wh.config).tolerance

\* C17: verifySignatureWithTimestamp on headers that hold no value for the
\* configured signature header raises webhook_signature_missing with a
\* message that names that header, and returns no boolean.
C17_MissingSignatureHeader ==
    (wh.op = "verifySignatureWithTimestamp" /\ Falsy(SignatureAnyCase))
    => wh.result = MissingSignatureError(finalConfig(wh.config).signatureHeader)

\* C17 witness: the signature header is configured as X-Hook-Signature, the
\* headers carry a signature under x-magpie-signature only and a timestamp
\* out of tolerance; the call raises the missing-header error naming
\* X-Hook-Signature.
C17_Witness ==
    /\ wh.op = "verifySignatureWithTimestamp"
    /\ wh.config.signatureHeader = "X-Hook-Signature"
    /\ wh.headers["x-magpie-signature"].kind = "string"
    /\ ~Falsy(TimestampAnyCase) /\ ~WithinTolerance
    /\ wh.result.code = "webhook_signature_missing"
    /\ wh.result.header = "X-Hook-Signature"

\* C18: in verifySignatureWithTimestamp with a signature header, a timestamp
\* header that is present must be within the tolerance of now (300 s unless
\* configured, in either direction) or webhook_timestamp_invalid is raised;
\* otherwise, and when no timestamp header is present, the result is that
\* of verifySignature on the value of the signature header.
C18_TimestampTolerance ==
    (wh.op = "verifySignatureWithTimestamp" /\ ~Falsy(SignatureAnyCase))
    => wh.result = IF ~Falsy(TimestampAnyCase) /\ ~WithinTolerance
                   THEN WebhookError("webhook_timestamp_invalid")
                   ELSE BooleanResult(verifySignature(wh.payload, SignatureAnyCase,
                                                      wh.secret, wh.config))

\* C19: verifySignatureWithTimestamp finds the signature and the timestamp
\* header under any letter-casing of the configured name and takes the first
\* element of an array value; a timestamp out of tolerance under another
\* casing is rejected.
C19_HeaderLookupCaseInsensitive ==
    wh.op = "verifySignatureWithTimestamp" =>
        /\ ~Falsy(SignatureAnyCase)
              => getHeader(wh.headers, finalConfig(wh.config).signatureHeader) = SignatureAnyCase
        /\ ~Falsy(TimestampAnyCase)
              => getHeader(wh.headers, finalConfig(wh.config).timestampHeader) = TimestampAnyCase
        /\ (~Falsy(SignatureAnyCase) /\ ~Falsy(TimestampAnyCase) /\ ~WithinTolerance)
              => wh.result = WebhookError("webhook_timestamp_invalid")

\* C20: isValidTimestamp(t, tol) is true exactly when t is at most tol
\* seconds from the current Unix second, tol being 300 when left out; a
\* negative tol is never satisfied.
C20_IsValidTimestamp ==
    wh.op = "isValidTimestamp" =>
        LET tol == IF wh.toleranceArg.given THEN wh.toleranceArg.value ELSE 300
            offset == wh.timestamp.value - NowSeconds
        IN wh.result = BooleanResult(offset <= tol /\ 0 - offset <= tol)

\* C20 witness: the current second itself, refused under a tolerance of -1.
C20_Witness ==
    /\ wh.op = "isValidTimestamp"
    /\ wh.toleranceArg = ToleranceArg(TRUE, -1)
    /\ wh.timestamp.value = NowSeconds
    /\ wh.dateNow % 1000 # 0
    /\ wh.result = BooleanResult(FALSE)

(***************************************************************************)
(* Construction of the request by method                                   *)
(***************************************************************************)
\* The arguments of the call in progress cannot be read back from the config
\* alone, so the property is stated over the step that builds the request.
BodyMethod(m) == m \in {"POST", "PUT", "PATCH"}

\* The query parameters the claim prescribes for a call.
ExpectedParams(method, requestData, expand) ==
    LET fromData == IF BodyMethod(method) \/ ~requestData.given
                    THEN EmptyObject
                    ELSE requestData.fields
    IN IF expand.given /\ expand.list # <<>>
       THEN [fromData EXCEPT !["expand"] = expand.list]
       ELSE fromData

\* The payload the claim prescribes for a call.
ExpectedPayload(method, requestData) ==
    IF BodyMethod(method) /\ requestData.given THEN requestData ELSE NoData

RequestBuilt(method, requestData, expand) ==
    request(method, requestData, None, expand, None,
            [validateStatus |-> config'.validateStatus, headers |-> NoHeaders])

RequestIdsOf(h) == { h[n] : n \in ResponseHeaderNames } \ {None}

\* The request ended with an outcome built from an HTTP response.
EndedWithResponse ==
    /\ pc = "done"
    /\ LastOutcome.kind = "http"
    /\ result.kind \in {"resolved", "MagpieError"}

\* C22: the requestId of a successful response and of an error is the value
\* of the response header 'request-id' or 'x-request-id', whichever is
\* present; a successful response that has neither has requestId null.
C22_RequestIdFromEitherHeader ==
    EndedWithResponse =>
       /\ RequestIdsOf(responseHeaders) # {} => result.requestId \in RequestIdsOf(responseHeaders)
       /\ RequestIdsOf(responseHeaders) = {} /\ result.kind = "resolved" => result.requestId = "null"

(***************************************************************************)
(* The retry loop                                                          *)
(***************************************************************************)
\* Attempts dispatched and not settled yet.
InFlight == Len(wire) - Len(history)

\* A further attempt of the request in progress is put on the wire.
DispatchesRetry == Len(wire) >= 1 /\ Len(wire') = Len(wire) + 1

\* C23: retries are strictly sequential: a further attempt is dispatched only
\* when the one before it has settled with a failure and the backoff delay
\* computed for it has been waited for; at most one attempt is in flight.
C23_RetriesSequential ==
    [][ /\ InFlight' \in {0, 1}
        /\ DispatchesRetry =>
              /\ pc = "backoff"
              /\ delay > 0
              /\ InFlight = 0
              /\ Len(history) = Len(wire)
              /\ RetryableFailure(LastOutcome) ]_vars

\* A retry is in flight after the attempt before it failed.
C23_Witness ==
    /\ pc = "inflight"
    /\ Len(wire) = 2
    /\ Len(history) = 1
    /\ RetryableFailure(history[1])

\* The last attempt's response or transport error, read back from the state.
LastResponse == [status |-> LastOutcome.status, body |-> data, headers |-> responseHeaders]

\* What the last attempt's failure alone translates to.
TranslationOfLast ==
    CASE LastOutcome.kind = "noconfig" -> TypeErrorResult
      [] LastOutcome.kind = "network" -> fromAxiosError(TransportError(LastOutcome.code))
      [] LastOutcome.kind = "http" ->
           IF validateStatus(config, LastOutcome.status)
           THEN createErrorFromResponse(LastResponse)
           ELSE fromAxiosError(ResponseError(LastResponse))

\* C24: last failure wins: the error raised to the caller is the translation
\* of the final attempt's failure alone, whatever the earlier attempts failed
\* with.
C24_LastFailureWins ==
    pc = "done" /\ result.kind # "resolved" => result = TranslationOfLast

\* A request failed with a connection error, was retried, and ended with an
\* error for a different failure.
C24_Witness ==
    /\ pc = "done"
    /\ Len(history) >= 2
    /\ history[1].kind = "network"
    /\ LastOutcome # history[1]
    /\ result.kind = "MagpieError"

\* The retry budget: maxRetries, or none when it is negative.
Budget == IF maxRetries > 0 THEN maxRetries ELSE 0

\* The step belongs to one request: it neither starts nor hands back one.
WithinRequest == pc # "idle" /\ pc' # "idle"

\* C25: bounded termination: the retry counter of a request only increases
\* and never exceeds maxRetries, and the request has settled after at most
\* max(maxRetries, 0) + 1 attempts; with maxRetries = 0 it makes exactly one.
C25_BoundedTermination ==
    [][ /\ WithinRequest => config'._retryCount >= config._retryCount
        /\ config'._retryCount <= Budget
        /\ Len(wire') <= Budget + 1
        /\ pc' = "backoff" => Len(history') <= Budget
        /\ pc' = "done" /\ maxRetries = 0 => Len(wire') = 1 ]_vars

\* A request used up a positive retry budget and settled on its last attempt.
C25_Witness ==
    /\ pc = "done"
    /\ maxRetries > 0
    /\ config._retryCount = maxRetries
    /\ Len(wire) = maxRetries + 1
    /\ result.kind = "MagpieError"

\* Every attempt but the last failed retryably and the last was answered 2xx.
RetryThenSuccess ==
    /\ pc = "done"
    /\ Len(history) >= 2
    /\ \A i \in 1..(Len(history) - 1) : RetryableFailure(history[i])
    /\ LastOutcome.kind = "http"
    /\ LastOutcome.status >= 200 /\ LastOutcome.status < 300

\* C26: when the attempts before the last fail retryably and the last is
\* answered with a 2xx response, request() resolves with the data, status and
\* headers of that response, raises no error and dispatches nothing further.
C26_RetryThenSuccess ==
    [][ /\ RetryThenSuccess' =>
              /\ result'.kind = "resolved"
              /\ result'.data = data'
              /\ result'.status = LastOutcome'.status
              /\ result'.headers = responseHeaders'
              /\ InFlight' = 0
        /\ RetryThenSuccess => Len(wire') <= Len(wire) ]_vars

\* A connection reset, then a 200 with a body and a request identifier.
C26_Witness ==
    /\ RetryThenSuccess
    /\ history[1].kind = "network"
    /\ data = "flat"
    /\ responseHeaders["request-id"] = "req_1"
    /\ result.kind = "resolved"

(***************************************************************************)
(* The two delivery paths of an HTTP error                                 *)
(***************************************************************************)
\* The last attempt was answered with an HTTP error status and the handler
\* that received it has run.
HttpErrorHandled ==
    /\ pc \in {"backoff", "done"}
    /\ LastOutcome.kind = "http"
    /\ LastOutcome.status >= 400

\* The request config as the handler of the last outcome saw it.
ConfigBefore == [config EXCEPT !._retryCount = CountBefore]

\* The retry decision of each path for the last response: the error handler
\* asks shouldRetry, the success handler throws without asking.
RejectedPathRetries == shouldRetry(ResponseError(LastResponse), ConfigBefore)
ResolvedPathRetries == FALSE

\* Two errors agree in type, code and message.
SameError(a, b) == a.type = b.type /\ a.code = b.code /\ a.message = b.message

\* C27: an HTTP error response delivered as a resolved response and the same
\* response delivered as a rejected transport error lead to the same retry
\* decision and to a MagpieError of the same type, code and message.
C27_DeliveryPathsAgree ==
    HttpErrorHandled =>
       /\ (pc = "backoff") = RejectedPathRetries
       /\ (pc = "backoff") = ResolvedPathRetries
       /\ pc = "done" =>
             /\ SameError(result, fromAxiosError(ResponseError(LastResponse)))
             /\ SameError(result, createErrorFromResponse(LastResponse))

(***************************************************************************)
(* isRetryable against the retry policy                                    *)
(***************************************************************************)
\* C28: isRetryable() of the error a request ends with is true exactly when
\* the failure is of a kind the retry policy treats as retryable: a
\* connection error of the allow-list, a status of 500 or more, or 429.
C28_IsRetryableMatchesPolicy ==
    pc = "done" /\ result.kind = "MagpieError" =>
       (isRetryable(result.type) <=> RetryableFailure(LastOutcome))

(***************************************************************************)
(* The idempotency-key restriction and PATCH                               *)
(***************************************************************************)
\* C29: the idempotency-key restriction applies to POST only: a PATCH made
\* without an idempotency key, not marked non-retryable, whose every attempt
\* fails retryably, is retried until maxRetries retries have been made.
C29_PatchRetriedWithoutKey ==
    ( /\ pc = "done"
      /\ maxRetries >= 0
      /\ config.method = "PATCH"
      /\ NoIdempotencyKey
      /\ config._retryable # "false"
      /\ \A i \in 1 .. Len(history) : RetryableFailure(history[i]) )
    => Len(wire) = maxRetries + 1

(***************************************************************************)
(* The order of the checks of verifySignatureWithTimestamp                 *)
(***************************************************************************)
\* C30: verifySignatureWithTimestamp checks the presence of the signature
\* first, the freshness of the timestamp second and the signature last: a
\* missing signature raises the missing-header error whatever the timestamp;
\* a present timestamp that is outside the tolerance or not a number raises
\* the timestamp error whether or not the signature is valid; false is
\* returned only when the signature header is present, the timestamp is
\* absent or fresh, and the signature does not match.
C30_CheckOrder ==
    wh.op = "verifySignatureWithTimestamp" =>
        /\ Falsy(SignatureAnyCase)
              => wh.result.code = "webhook_signature_missing"
        /\ (~Falsy(SignatureAnyCase) /\ ~Falsy(TimestampAnyCase) /\ ~WithinTolerance)
              => wh.result.code = "webhook_timestamp_invalid"
        /\ wh.result = BooleanResult(FALSE)
              => /\ ~Falsy(SignatureAnyCase)
                 /\ Falsy(TimestampAnyCase) \/ WithinTolerance
                 /\ ~verifySignature(wh.payload, SignatureAnyCase, wh.secret, wh.config)

====
